---- MODULE Spec2Model ----
(***************************************************************************)
(* Model of scripts/analyze_history.py: the play-event aggregation         *)
(* (aggregate_tracks, aggregate_artists) and the cached, rate-limited,     *)
(* retried genre lookup (load_genre_cache, save_genre_cache,               *)
(* fetch_artist_genres) as called from main.                               *)
(***************************************************************************)
EXTENDS Integers, Sequences, FiniteSets, TLC

\* ------------------------------------------------------------------ bounds
MaxNames   == 3      \* longest artist_names list handed to fetch_artist_genres
MaxRetries == 3      \* largest max_retries argument explored
MaxEntries == 2      \* longest streaming-history list handed to the aggregators

\* ------------------------------------------------------- program constants
DefaultMinMs == 30000    \* min_ms default of aggregate_tracks / aggregate_artists
TopTags      == 5        \* sorted_tags[:5]
BackoffUnit  == 5        \* wait = 5 * attempt

\* ------------------------------------------------------------ value spaces
Names    == {"a", "b"}
Absent   == "<absent>"        \* dict.get() on a missing key (None)
Falsy(x) == x \in {Absent, ""}

Range(s) == {s[k] : k \in 1..Len(s)}

SeqsUpTo(S, n) == UNION {[1..k -> S] : k \in 0..n}

\* Python dict operations on a mapping modelled as a function.
EmptyMap     == [x \in {} |-> <<>>]
Put(m, k, v) == [x \in DOMAIN m \cup {k} |-> IF x = k THEN v ELSE m[x]]
Get(m, k, d) == IF k \in DOMAIN m THEN m[k] ELSE d

\* ------------------------------------------------- the persisted cache file
AbsentFile   == [status |-> "absent",  data |-> EmptyMap]
CorruptFile  == [status |-> "corrupt", data |-> EmptyMap]
ValidFile(m) == [status |-> "valid",   data |-> m]

CachedValues == {<<>>, <<"rock">>}
CacheMaps    == UNION {[D -> CachedValues] : D \in SUBSET Names}
DiskStates   == {AbsentFile, CorruptFile} \cup {ValidFile(m) : m \in CacheMaps}

\* ------------------------------------------------ the tag source's answers
Tag(n, c) == [name |-> n, count |-> c]
TwoTags   == <<Tag("pop", 3), Tag("rock", 10)>>
SixTags   == <<Tag("t1", 1), Tag("t2", 5), Tag("t3", 5), Tag("t4", 2), Tag("t5", 9), Tag("t6", 4)>>
BadTags   == <<Tag("rock", 10), Tag(Absent, 3)>>
Responses == {[kind |-> "error",   tags |-> <<>>],
              [kind |-> "nomatch", tags |-> <<>>],
              [kind |-> "match",   tags |-> TwoTags],
              [kind |-> "match",   tags |-> SixTags],
              [kind |-> "match",   tags |-> BadTags]}

\* sorted(tags, key=lambda t: int(t.get('count', 0)), reverse=True): stable,
\* descending; equal counts keep the source's order.
RECURSIVE InsertTag(_, _)
InsertTag(s, t) ==
    IF s = <<>> THEN <<t>>
    ELSE IF Head(s).count >= t.count THEN <<Head(s)>> \o InsertTag(Tail(s), t)
    ELSE <<t>> \o s

RECURSIVE SortedTags(_)
SortedTags(tags) ==
    IF tags = <<>> THEN <<>>
    ELSE InsertTag(SortedTags(SubSeq(tags, 1, Len(tags) - 1)), tags[Len(tags)])

FirstN(s, n) == SubSeq(s, 1, IF Len(s) < n THEN Len(s) ELSE n)

\* [t['name'] for t in sorted_tags[:5]]; t['name'] raises KeyError on a tag
\* without a name.
TagNamesRaise(tags) == \E k \in 1..Len(FirstN(SortedTags(tags), TopTags)) :
                          FirstN(SortedTags(tags), TopTags)[k].name = Absent
TagNames(tags) == [k \in 1..Len(FirstN(SortedTags(tags), TopTags)) |->
                      FirstN(SortedTags(tags), TopTags)[k].name]

\* The try block of one lookup: TRUE when it ends in the except branch.
LookupRaises(resp) ==
    \/ resp.kind = "error"
    \/ resp.kind = "match" /\ TagNamesRaise(resp.tags)

\* The value the try block stores under the name when it does not raise.
LookupValue(resp) == IF resp.kind = "match" THEN TagNames(resp.tags) ELSE <<>>

VARIABLES
    \* fetch_artist_genres and its caller
    disk,           \* the file at GENRE_CACHE_PATH
    artist_names,   \* argument
    max_retries,    \* argument
    pc,             \* position in fetch_artist_genres
    killed,         \* the process was terminated externally
    cache, names, to_fetch, failed, attempt, idx,
    error,          \* the exception that left fetch_artist_genres, if any
    artist_genres,  \* main's binding of the returned mapping
    \* observations of the run
    disk0,          \* the file as it was when the run started
    writes,         \* attempts to write the file
    owed,           \* lookups issued since the last rate-limit pause
    lookups,        \* lookups issued in total
    redundant,      \* a lookup was issued for a name that was a key of cache
    rounds,         \* fetch rounds started
    looked,         \* names looked up in the current round, in order
    raisedNow,      \* names whose lookup raised in the current round, in order
    raisedPrev,     \* names whose lookup raised in the preceding round, in order
    allFailed,      \* names whose lookup raised in every round so far
    okValue,        \* per name, what its latest lookup that did not raise stored
    backoffs,       \* per finished round, the backoff slept after it (0: none)
    \* the aggregators
    entries, min_ms, apc, tracks, artists

fetchVars == <<disk, artist_names, max_retries, pc, killed, cache, names, to_fetch,
               failed, attempt, idx, error, artist_genres>>
histVars  == <<disk0, writes, owed, lookups, redundant, rounds, looked, raisedNow,
               raisedPrev, allFailed, okValue, backoffs>>
aggVars   == <<entries, min_ms, apc, tracks, artists>>
vars      == <<fetchVars, histVars, aggVars>>

NoResult      == [bound |-> FALSE, value |-> EmptyMap]
Returned(m)   == [bound |-> TRUE,  value |-> m]

\* ------------------------------------------------------ load_genre_cache
\* json.load raises on an unparseable file; a missing file gives {}.
\* (variant: a load that swallows the parse error and goes on with {})
LoadRaisesMut(file) == FALSE
LoadRaises(file) == file.status = "corrupt"
load_genre_cache(file) == IF file.status = "valid" THEN file.data ELSE EmptyMap

\* to_fetch = [n for n in names if n not in cache]
RECURSIVE NotIn(_, _)
NotIn(s, m) ==
    IF s = <<>> THEN <<>>
    ELSE IF Head(s) \in DOMAIN m THEN NotIn(Tail(s), m)
    ELSE <<Head(s)>> \o NotIn(Tail(s), m)

\* for name in to_fetch: cache[name] = []
RECURSIVE GiveUpCache(_, _)
\* (variant: no give-up entries are written)
GiveUpCacheMut(m, s) == m
GiveUpCache(m, s) ==
    IF s = <<>> THEN m ELSE GiveUpCache(Put(m, Head(s), <<>>), Tail(s))

\* {name: cache.get(name, []) for name in names}
\* (variant: the whole cache is returned)
ResultMappingMut(ns, m) == [n \in DOMAIN m |-> m[n]]
ResultMapping(ns, m) == [n \in Range(ns) |-> Get(m, n, <<>>)]

FetchStart(file, requested, retries) ==
    /\ disk = file
    /\ artist_names = requested
    /\ max_retries = retries
    /\ pc = "start"
    /\ killed = FALSE
    /\ cache = EmptyMap
    /\ names = <<>>
    /\ to_fetch = <<>>
    /\ failed = <<>>
    /\ attempt = 0
    /\ idx = 0
    /\ error = "none"
    /\ artist_genres = NoResult
    /\ disk0 = file
    /\ writes = 0
    /\ owed = 0
    /\ lookups = 0
    /\ redundant = FALSE
    /\ rounds = 0
    /\ looked = <<>>
    /\ raisedNow = <<>>
    /\ raisedPrev = <<>>
    /\ allFailed = {}
    /\ okValue = EmptyMap
    /\ backoffs = <<>>

FetchInit ==
    \E file \in DiskStates, requested \in SeqsUpTo(Names, MaxNames), retries \in 0..MaxRetries :
        FetchStart(file, requested, retries)

AggIdle ==
    /\ entries = <<>>
    /\ min_ms = DefaultMinMs
    /\ apc = "idle"
    /\ tracks = EmptyMap
    /\ artists = EmptyMap

Init == FetchInit /\ AggIdle

Running == ~killed

\* cache = load_genre_cache() raising: the exception leaves fetch_artist_genres.
LoadAbort ==
    /\ Running /\ pc = "start"
    /\ LoadRaises(disk)
    /\ pc' = "raised"
    /\ error' = "load"
    /\ UNCHANGED <<disk, artist_names, max_retries, killed, cache, names, to_fetch,
                   failed, attempt, idx, artist_genres>>
    /\ UNCHANGED histVars
    /\ UNCHANGED aggVars

\* cache = load_genre_cache(); names = list(artist_names); to_fetch = [...]
Load ==
    /\ Running /\ pc = "start"
    /\ ~LoadRaises(disk)
    /\ cache' = load_genre_cache(disk)
    /\ names' = artist_names
    /\ to_fetch' = NotIn(artist_names, cache')
    /\ allFailed' = Range(to_fetch')
    /\ pc' = "loop"
    /\ UNCHANGED <<disk, artist_names, max_retries, killed, failed, attempt, idx,
                   error, artist_genres>>
    /\ UNCHANGED <<disk0, writes, owed, lookups, redundant, rounds, looked, raisedNow,
                   raisedPrev, okValue, backoffs>>
    /\ UNCHANGED aggVars

\* for attempt in range(1, max_retries + 1): the range is used up.
LoopExhausted ==
    /\ Running /\ pc = "loop"
    /\ attempt >= max_retries
    /\ pc' = "giveup"
    /\ UNCHANGED <<disk, artist_names, max_retries, killed, cache, names, to_fetch,
                   failed, attempt, idx, error, artist_genres>>
    /\ UNCHANGED histVars
    /\ UNCHANGED aggVars

\* if not to_fetch: break
LoopBreak ==
    /\ Running /\ pc = "loop"
    /\ attempt < max_retries
    /\ to_fetch = <<>>
    /\ attempt' = attempt + 1
    /\ pc' = "giveup"
    /\ UNCHANGED <<disk, artist_names, max_retries, killed, cache, names, to_fetch,
                   failed, idx, error, artist_genres>>
    /\ UNCHANGED histVars
    /\ UNCHANGED aggVars

\* failed = []; the inner for loop starts.
RoundStart ==
    /\ Running /\ pc = "loop"
    /\ attempt < max_retries
    /\ to_fetch # <<>>
    /\ attempt' = attempt + 1
    /\ failed' = <<>>
    /\ idx' = 1
    /\ pc' = "fetch"
    /\ rounds' = rounds + 1
    /\ looked' = <<>>
    /\ raisedNow' = <<>>
    /\ UNCHANGED <<disk, artist_names, max_retries, killed, cache, names, to_fetch,
                   error, artist_genres>>
    /\ UNCHANGED <<disk0, writes, owed, lookups, redundant, raisedPrev, allFailed,
                   okValue, backoffs>>
    /\ UNCHANGED aggVars

\* Where control goes after the try/except of one lookup: to time.sleep(1.1),
\* which stands after the except branch and so runs on both paths ("advance"
\* would be the loop moving on without it).
\* (variant: the sleep inside the try block, skipped by an exception)
AfterLookupMut(raised) == IF raised THEN "advance" ELSE "pause"
AfterLookup(raised) == "pause"

\* The try/except around musicbrainzngs.search_artists for to_fetch[idx].
Lookup ==
    /\ Running /\ pc = "fetch"
    /\ \E resp \in Responses :
        LET name == to_fetch[idx] IN
        /\ IF LookupRaises(resp)
           THEN /\ failed' = Append(failed, name)
                /\ cache' = cache
                /\ raisedNow' = Append(raisedNow, name)
                /\ okValue' = okValue
           ELSE /\ cache' = Put(cache, name, LookupValue(resp))
                /\ failed' = failed
                /\ raisedNow' = raisedNow
                /\ okValue' = Put(okValue, name, LookupValue(resp))
        /\ redundant' = (redundant \/ name \in DOMAIN cache)
        /\ looked' = Append(looked, name)
        /\ pc' = AfterLookup(LookupRaises(resp))
    /\ owed' = owed + 1
    /\ lookups' = lookups + 1
    /\ UNCHANGED <<disk, artist_names, max_retries, killed, names, to_fetch, attempt,
                   idx, error, artist_genres>>
    /\ UNCHANGED <<disk0, writes, rounds, raisedPrev, allFailed, backoffs>>
    /\ UNCHANGED aggVars

\* time.sleep(1.1), then the inner loop moves on.
Pause ==
    /\ Running /\ pc \in {"pause", "advance"}
    /\ owed' = IF pc = "pause" THEN 0 ELSE owed
    /\ idx' = idx + 1
    /\ pc' = IF idx < Len(to_fetch) THEN "fetch" ELSE "round_end"
    /\ UNCHANGED <<disk, artist_names, max_retries, killed, cache, names, to_fetch,
                   failed, attempt, error, artist_genres>>
    /\ UNCHANGED <<disk0, writes, lookups, redundant, rounds, looked, raisedNow,
                   raisedPrev, allFailed, okValue, backoffs>>
    /\ UNCHANGED aggVars

\* The backoff slept after a round: 5 * attempt when the round had failures and
\* another attempt remains, else none (0).
\* (variant: the backoff also slept after the last attempt)
BackoffMut(fl, att, maxr) == IF fl # <<>> THEN BackoffUnit * att ELSE 0
Backoff(fl, att, maxr) == IF fl # <<>> /\ att < maxr THEN BackoffUnit * att ELSE 0

\* What the end of a round does to the file: nothing.
\* (variant: the cache saved at the end of every round)
RoundEndDiskMut(file, m) == ValidFile(m)
RoundEndDisk(file, m) == file

\* to_fetch = failed, and the backoff.
RoundEnd ==
    /\ Running /\ pc = "round_end"
    /\ to_fetch' = failed
    /\ backoffs' = Append(backoffs, Backoff(failed, attempt, max_retries))
    /\ raisedPrev' = raisedNow
    /\ allFailed' = allFailed \cap Range(raisedNow)
    /\ disk' = RoundEndDisk(disk, cache)
    /\ pc' = "loop"
    /\ UNCHANGED <<artist_names, max_retries, killed, cache, names, failed, attempt,
                   idx, error, artist_genres>>
    /\ UNCHANGED <<disk0, writes, owed, lookups, redundant, rounds, looked, raisedNow,
                   okValue>>
    /\ UNCHANGED aggVars

\* if to_fetch: for name in to_fetch: cache[name] = []
GiveUp ==
    /\ Running /\ pc = "giveup"
    /\ cache' = GiveUpCache(cache, to_fetch)
    /\ pc' = "save"
    /\ UNCHANGED <<disk, artist_names, max_retries, killed, names, to_fetch, failed,
                   attempt, idx, error, artist_genres>>
    /\ UNCHANGED histVars
    /\ UNCHANGED aggVars

\* save_genre_cache(cache) succeeding.
Save ==
    /\ Running /\ pc = "save"
    /\ disk' = ValidFile(cache)
    /\ writes' = writes + 1
    /\ pc' = "return"
    /\ UNCHANGED <<artist_names, max_retries, killed, cache, names, to_fetch, failed,
                   attempt, idx, error, artist_genres>>
    /\ UNCHANGED <<disk0, owed, lookups, redundant, rounds, looked, raisedNow,
                   raisedPrev, allFailed, okValue, backoffs>>
    /\ UNCHANGED aggVars

\* save_genre_cache(cache) raising: open() fails and leaves the file alone, or
\* the write fails after open(..., 'w') truncated it. Nothing catches the
\* exception: the return statement is not reached and main binds nothing.
SaveFail ==
    /\ Running /\ pc = "save"
    /\ disk' \in {disk, CorruptFile}
    /\ writes' = writes + 1
    /\ error' = "save"
    /\ pc' = "raised"
    /\ UNCHANGED <<artist_names, max_retries, killed, cache, names, to_fetch, failed,
                   attempt, idx, artist_genres>>
    /\ UNCHANGED <<disk0, owed, lookups, redundant, rounds, looked, raisedNow,
                   raisedPrev, allFailed, okValue, backoffs>>
    /\ UNCHANGED aggVars

\* return {...}; main: artist_genres = fetch_artist_genres(top_artist_names)
Return ==
    /\ Running /\ pc = "return"
    /\ artist_genres' = Returned(ResultMapping(names, cache))
    /\ pc' = "done"
    /\ UNCHANGED <<disk, artist_names, max_retries, killed, cache, names, to_fetch,
                   failed, attempt, idx, error>>
    /\ UNCHANGED histVars
    /\ UNCHANGED aggVars

\* The process is killed from outside while fetch_artist_genres runs.
Kill ==
    /\ Running /\ pc \notin {"done", "raised"}
    /\ killed' = TRUE
    /\ UNCHANGED <<disk, artist_names, max_retries, pc, cache, names, to_fetch, failed,
                   attempt, idx, error, artist_genres>>
    /\ UNCHANGED histVars
    /\ UNCHANGED aggVars

Run == \/ LoadAbort \/ Load \/ LoopExhausted \/ LoopBreak \/ RoundStart \/ Lookup
       \/ Pause \/ RoundEnd \/ GiveUp \/ Save \/ SaveFail \/ Return

Next == Run \/ Kill

Spec == Init /\ [][Next]_vars

\* The run left alone: a sequential program takes its next step.
RunSpec == Init /\ [][Run]_vars /\ WF_vars(Run)

\* ---------------------------------------------------------- the aggregators
\* One raw play event: e.get(...) of the three keys read, and e['ms_played'].
\* (master_metadata_album_album_name is only copied and is left out.)
Events == [uri : {Absent, "u1", "u2"}, name : {"", "X"},
           artist : {Absent, "Art1", "Art2"}, ms : {29000, 31000}]

\* if not uri or not name: continue / if e['ms_played'] < min_ms: continue
TrackCounts(e, m) == ~Falsy(e.uri) /\ ~Falsy(e.name) /\ e.ms >= m

\* if not artist or not uri: continue / if e['ms_played'] < min_ms: continue
ArtistCounts(e, m) == ~Falsy(e.artist) /\ ~Falsy(e.uri) /\ e.ms >= m

NewTrack  == [track_name |-> "", artist_name |-> "", play_count |-> 0, total_ms |-> 0]
NewArtist == [play_count |-> 0, total_ms |-> 0, track_uris |-> {}]

\* The body of aggregate_tracks' loop for one entry.
TrackStep(t, e, m) ==
    IF ~TrackCounts(e, m) THEN t
    ELSE LET old == Get(t, e.uri, NewTrack) IN
         Put(t, e.uri, [track_name  |-> e.name,
                        artist_name |-> IF e.artist = Absent THEN "" ELSE e.artist,
                        play_count  |-> old.play_count + 1,
                        total_ms    |-> old.total_ms + e.ms])

\* The body of aggregate_artists' loop for one entry.
ArtistStep(a, e, m) ==
    IF ~ArtistCounts(e, m) THEN a
    ELSE LET old == Get(a, e.artist, NewArtist) IN
         Put(a, e.artist, [play_count |-> old.play_count + 1,
                           total_ms   |-> old.total_ms + e.ms,
                           track_uris |-> old.track_uris \cup {e.uri}])

RECURSIVE aggregate_tracks(_, _)
aggregate_tracks(es, m) ==
    IF es = <<>> THEN EmptyMap
    ELSE TrackStep(aggregate_tracks(SubSeq(es, 1, Len(es) - 1), m), es[Len(es)], m)

RECURSIVE aggregate_artists(_, _)
aggregate_artists(es, m) ==
    IF es = <<>> THEN EmptyMap
    ELSE ArtistStep(aggregate_artists(SubSeq(es, 1, Len(es) - 1), m), es[Len(es)], m)

\* sum(s['play_count'] for s in mapping.values())
RECURSIVE SumPlays(_)
SumPlays(m) ==
    IF DOMAIN m = {} THEN 0
    ELSE LET k == CHOOSE x \in DOMAIN m : TRUE IN
         m[k].play_count + SumPlays([x \in DOMAIN m \ {k} |-> m[x]])

AggInit ==
    /\ FetchStart(AbsentFile, <<>>, 0)
    /\ entries \in SeqsUpTo(Events, MaxEntries)
    /\ min_ms \in {DefaultMinMs, 0}
    /\ apc = "start"
    /\ tracks = EmptyMap
    /\ artists = EmptyMap

\* main: tracks = aggregate_tracks(entries)
AggregateTracks ==
    /\ apc = "start"
    /\ tracks' = aggregate_tracks(entries, min_ms)
    /\ apc' = "tracks"
    /\ UNCHANGED <<entries, min_ms, artists>>
    /\ UNCHANGED fetchVars
    /\ UNCHANGED histVars

\* main: artists = aggregate_artists(entries)
AggregateArtists ==
    /\ apc = "tracks"
    /\ artists' = aggregate_artists(entries, min_ms)
    /\ apc' = "done"
    /\ UNCHANGED <<entries, min_ms, tracks>>
    /\ UNCHANGED fetchVars
    /\ UNCHANGED histVars

AggNext == AggregateTracks \/ AggregateArtists

AggSpec == AggInit /\ [][AggNext]_vars

\* ------------------------------------------------------------------ claims
\* The names that were pending when the run started: requested and not a key
\* of the file as loaded.
Pending0 == NotIn(artist_names, load_genre_cache(disk0))

IsTagList(v) == v \in Seq(STRING)

C2_ResultKeysAreRequested ==
    artist_genres.bound => DOMAIN artist_genres.value = Range(artist_names)

C2_Witness ==
    /\ pc = "done" /\ artist_genres.bound
    /\ DOMAIN cache \ Range(artist_names) # {}
    /\ allFailed # {}
    /\ rounds = max_retries /\ max_retries >= 2

\* C3: once the max_retries rounds are used up and the cache is saved, every
\* name pending at the start is a key of the saved cache with a list value,
\* and a name whose lookup failed in every round is saved and returned as [].
C3_PendingResolved ==
    (pc \in {"return", "done"} /\ rounds = max_retries) =>
        \A n \in Range(Pending0) :
            /\ disk.status = "valid"
            /\ n \in DOMAIN disk.data
            /\ IsTagList(disk.data[n])
            /\ n \in allFailed =>
                /\ disk.data[n] = <<>>
                /\ artist_genres.bound => artist_genres.value[n] = <<>>

C3_Witness ==
    /\ pc = "done" /\ rounds = max_retries /\ max_retries = 3
    /\ allFailed # {}
    /\ Range(Pending0) \ allFailed # {}

\* C4: when every qualifying event has a non-empty artist name, the play
\* counts of aggregate_tracks and of aggregate_artists sum to the same number.
C4_PlayCountsAgree ==
    (/\ apc = "done"
     /\ \A k \in 1..Len(entries) :
            TrackCounts(entries[k], min_ms) => ~Falsy(entries[k].artist))
    => SumPlays(tracks) = SumPlays(artists)

\* C5: every lookup is followed by the rate-limit pause before anything else
\* happens, so no lookup is issued while an earlier one still awaits its pause.
C5_PauseAfterEveryLookup ==
    /\ owed <= 1
    /\ owed = 1 => pc = "pause"

C5_Witness ==
    /\ owed = 1 /\ pc = "pause" /\ ~killed
    /\ rounds >= 2
    /\ raisedNow # <<>> /\ raisedNow[Len(raisedNow)] = to_fetch[idx]
    /\ idx = Len(to_fetch)

\* C6: the file is written at most once, only after the last round and the
\* give-up step; before that write it is what was loaded at the start.
C6_SingleWriteAtEnd ==
    /\ writes <= 1
    /\ writes = 0 => disk = disk0
    /\ writes = 1 => pc \in {"return", "done", "raised"}

C6_Witness ==
    /\ killed /\ pc = "fetch" /\ idx > 1
    /\ cache # load_genre_cache(disk0)
    /\ writes = 0 /\ disk = disk0

\* C7: an unparseable file aborts the run with an error before any lookup and
\* without a write; a missing file is read as the empty mapping and the run
\* goes on.
C7_LoadFailure ==
    /\ disk0.status = "corrupt" =>
        /\ lookups = 0 /\ rounds = 0 /\ writes = 0 /\ disk = disk0
        /\ pc \in {"start", "raised"}
        /\ pc = "raised" => error = "load"
    /\ disk0.status = "absent" =>
        /\ error # "load"
        /\ (pc = "loop" /\ attempt = 0) => (cache = EmptyMap /\ to_fetch = artist_names)

C7_Witness ==
    /\ disk0.status = "corrupt" /\ pc = "raised" /\ error = "load"
    /\ artist_names # <<>> /\ max_retries > 0

\* C8: when the write of the cache fails, the failure reaches the caller as an
\* error of its own and the mapping resolved in memory is still available to
\* the caller.
C8_SaveFailureKeepsResults ==
    (pc = "raised" /\ writes = 1) =>
        /\ error = "save"
        /\ artist_genres.bound

\* The safety part of C9: at most max_retries rounds run; the
\* first round looks up the names absent from the loaded cache, each later
\* round the names that failed in the round before, and the backoff
\* (5 * attempt) is slept only after a round with failures that is not the last.
C9_RoundsSafety ==
    /\ rounds <= max_retries
    /\ Len(backoffs) <= rounds
    /\ pc = "round_end" =>
        looked = IF rounds = 1 THEN Pending0 ELSE raisedPrev
    /\ (pc = "loop" /\ rounds > 0) =>
        /\ Len(backoffs) = rounds
        /\ backoffs[rounds] = IF raisedPrev # <<>> /\ rounds < max_retries
                              THEN BackoffUnit * rounds ELSE 0

\* C9: the round discipline above holds throughout, and a run that has loaded
\* the cache always reaches the save step.
C9_RoundsAndTermination ==
    /\ []C9_RoundsSafety
    /\ (pc = "loop") ~> (pc = "save")

C9_Witness ==
    /\ pc = "save" /\ rounds = 3 /\ max_retries = 3
    /\ backoffs = <<BackoffUnit, 2 * BackoffUnit, 0>>
    /\ Len(artist_names) > 1

====
